---- MODULE Spec2Model ----
(***************************************************************************)
(* Model of the report updater: the citation checker and link validator    *)
(* of validator.py, the numbering of sources in updater.py and             *)
(* researcher.py, and the RESULT step's bibliography aggregation and the   *)
(* session workflow of app.py.                                             *)
(*                                                                         *)
(* Texts and titles are sequences of one-character strings, so that the    *)
(* regular expressions and string methods of the source are modelled by    *)
(* what they do to characters. The url of a source entry is only ever      *)
(* compared for equality, and is a string.                                 *)
(***************************************************************************)
EXTENDS Integers, Sequences, FiniteSets, TLC

VARIABLES
    pc,                 \* position of the function under check
    text,               \* validate_citations / validate_links: parameter text
    val,                \* validate_citations: the returned dict
    view,               \* RESULT: the messages shown for the returned dict
    urls,               \* validate_links: list(set(findall)), the URLs to check
    url_pos,            \* validate_links: how many URLs the for loop has taken
    valid_count,        \* validate_links: valid_count
    broken_links,       \* validate_links: broken_links
    requested,          \* the requests.get calls issued so far, in order
    responses,          \* what each of these calls did: a status code or an error
    bibliography,       \* extract_sources_and_bibliography: bibliography
    ddg_results,        \* search_web_ddg: results, the list ddgs.text gave
    res_pos,            \* search_web_ddg: how many results the loop has taken
    seen_domains,       \* search_web_ddg: seen_domains
    findings,           \* search_web_ddg: findings, block by block
    ddg_sources,        \* search_web_ddg: sources
    step,               \* st.session_state.step
    chapters,           \* st.session_state.chapters
    processed_results,  \* st.session_state.processed_results
    source_metadata,    \* st.session_state.source_metadata, in insertion order
    proc_i,             \* PROCESSING: the index i the for loop has reached
    academic_sources,   \* RESULT: academic_sources
    web_sources,        \* RESULT: web_sources
    bibliography_md     \* RESULT: the rendered bibliography

citeVars == <<text, val, view>>
linkVars == <<urls, url_pos, valid_count, broken_links, requested, responses>>
sessionVars == <<step, chapters, processed_results, source_metadata>>
resultVars == <<academic_sources, web_sources, bibliography_md>>
appVars == <<sessionVars, proc_i, resultVars>>
searchVars == <<ddg_results, res_pos, seen_domains, findings, ddg_sources>>
indexVars == <<bibliography, searchVars>>
vars == <<pc, citeVars, linkVars, appVars, indexVars>>

\* Value of a variable that holds nothing yet.
None == [none |-> TRUE]

-----------------------------------------------------------------------------
(* Bounds of the model. *)

\* Longest text of the citation checker, in pieces of CiteTokens.
MaxCiteTokens == 4

\* Longest text of the link validator, in pieces of LinkTokens.
MaxLinkTokens == 5

\* Most chapters a report has, and so the chapter indices 0..MaxChapters-1.
MaxChapters == 2

\* Longest text given to extract_sources_and_bibliography, in pieces of
\* BibTokens.
MaxBibTokens == 2

\* Longest list of results put together from ResultPool.
MaxDdgResults == 3

-----------------------------------------------------------------------------
(* Characters and strings. *)

UpperCase == <<"A","B","C","D","E","F","G","H","I","J","K","L","M",
               "N","O","P","Q","R","S","T","U","V","W","X","Y","Z">>
LowerCase == <<"a","b","c","d","e","f","g","h","i","j","k","l","m",
               "n","o","p","q","r","s","t","u","v","w","x","y","z">>
Digits == {"0","1","2","3","4","5","6","7","8","9"}

IsLetter(c) == \E i \in 1..26 : c = UpperCase[i] \/ c = LowerCase[i]

\* re.IGNORECASE compares characters up to letter case.
Lower(c) ==
    IF \E i \in 1..26 : UpperCase[i] = c
    THEN LowerCase[CHOOSE i \in 1..26 : UpperCase[i] = c]
    ELSE c

\* The concatenation of a sequence of strings.
RECURSIVE Concat(_)
Concat(ss) == IF ss = <<>> THEN <<>> ELSE Head(ss) \o Concat(Tail(ss))

\* All sequences over S of length at most n.
SeqsUpTo(S, n) == UNION {[1..k -> S] : k \in 0..n}

\* s from position i (1-based) to its end.
From(s, i) == SubSeq(s, i, Len(s))

\* word occurs in s at position i, letter case ignored or not.
MatchAtIgnoreCase(s, i, word) ==
    /\ i + Len(word) - 1 <= Len(s)
    /\ \A k \in 1..Len(word) : Lower(s[i + k - 1]) = Lower(word[k])

MatchAt(s, i, word) ==
    /\ i + Len(word) - 1 <= Len(s)
    /\ \A k \in 1..Len(word) : s[i + k - 1] = word[k]

-----------------------------------------------------------------------------
(* validator.validate_citations *)

\* The alternatives of r'Sources|Bibliography|References', in order.
MarkerWords == << <<"S","o","u","r","c","e","s">>,
                  <<"B","i","b","l","i","o","g","r","a","p","h","y">>,
                  <<"R","e","f","e","r","e","n","c","e","s">> >>

\* The alternative that matches at position i: 0 when none does.
MarkerAt(s, i) ==
    IF \E w \in 1..Len(MarkerWords) : MatchAtIgnoreCase(s, i, MarkerWords[w])
    THEN CHOOSE w \in 1..Len(MarkerWords) :
            /\ MatchAtIgnoreCase(s, i, MarkerWords[w])
            /\ \A v \in 1..(w - 1) : ~MatchAtIgnoreCase(s, i, MarkerWords[v])
    ELSE 0

\* re.split(pattern, s, flags=re.IGNORECASE): the pieces of s between the
\* non-overlapping matches, found from left to right. i scans s, start is
\* where the current piece began.
RECURSIVE SplitFrom(_, _, _)
SplitFrom(s, i, start) ==
    IF i > Len(s) THEN << SubSeq(s, start, Len(s)) >>
    ELSE IF MarkerAt(s, i) # 0
         THEN LET n == Len(MarkerWords[MarkerAt(s, i)])
              IN  << SubSeq(s, start, i - 1) >> \o SplitFrom(s, i + n, i + n)
         ELSE SplitFrom(s, i + 1, start)

re_split(s) == SplitFrom(s, 1, 1)

\* Length of the run of digits of s that starts at position i.
RECURSIVE DigitRun(_, _)
DigitRun(s, i) ==
    IF i <= Len(s) /\ s[i] \in Digits THEN 1 + DigitRun(s, i + 1) ELSE 0

\* re.findall(r'\[(\d+)\]', s): the digit strings of the non-overlapping
\* matches, from left to right.
RECURSIVE FindCitationsFrom(_, _)
FindCitationsFrom(s, i) ==
    IF i > Len(s) THEN <<>>
    ELSE LET d == DigitRun(s, i + 1)
         IN  IF s[i] = "[" /\ d >= 1 /\ i + d + 1 <= Len(s) /\ s[i + d + 1] = "]"
             THEN << SubSeq(s, i + 1, i + d) >> \o FindCitationsFrom(s, i + d + 2)
             ELSE FindCitationsFrom(s, i + 1)

\* set(re.findall(...)): the digit strings, duplicates collapsed.
Range(f) == {f[x] : x \in DOMAIN f}
CitationSet(s) == Range(FindCitationsFrom(s, 1))

\* The text of the bibliography section: the last piece of the split.
BibText(parts) == parts[Len(parts)]

\* A slip that takes the difference the wrong way round.
OrphansInTextSwapped(in_text_citations, in_bib_citations) ==
    in_bib_citations \ in_text_citations

OrphansInText(in_text_citations, in_bib_citations) ==
    in_text_citations \ in_bib_citations

\* A slip that lists every bibliography index as an orphan.
OrphansInBibUnfiltered(in_text_citations, in_bib_citations) ==
    in_bib_citations

OrphansInBib(in_text_citations, in_bib_citations) ==
    in_bib_citations \ in_text_citations

\* A slip in the length test: a split always has one piece at least.
NoBibliographyNever(parts) == Len(parts) < 1

NoBibliography(parts) == Len(parts) < 2

\* A slip that looks for the first research source instead of index 0.
HasOriginalRefOne(in_text_citations) == <<"1">> \in in_text_citations

HasOriginalRef(in_text_citations) == <<"0">> \in in_text_citations

\* A slip that looks for the in-text citations in the part before the
\* first marker only.
validate_citations_body_only(s) ==
    LET parts == re_split(s)
        in_text_citations == CitationSet(parts[1])
    IN  IF NoBibliography(parts)
        THEN [error |-> "No bibliography section found"]
        ELSE LET in_bib_citations == CitationSet(BibText(parts))
             IN  [text_citations   |-> in_text_citations,
                  bib_citations    |-> in_bib_citations,
                  orphans_in_text  |-> OrphansInText(in_text_citations, in_bib_citations),
                  orphans_in_bib   |-> OrphansInBib(in_text_citations, in_bib_citations),
                  has_original_ref |-> HasOriginalRef(in_text_citations)]

\* The dict validate_citations returns. The lists it builds from sets hold
\* each member once, in no fixed order: they are sets here.
validate_citations(s) ==
    LET in_text_citations == CitationSet(s)
        parts == re_split(s)
    IN  IF NoBibliography(parts)
        THEN [error |-> "No bibliography section found"]
        ELSE LET in_bib_citations == CitationSet(BibText(parts))
             IN  [text_citations   |-> in_text_citations,
                  bib_citations    |-> in_bib_citations,
                  orphans_in_text  |-> OrphansInText(in_text_citations, in_bib_citations),
                  orphans_in_bib   |-> OrphansInBib(in_text_citations, in_bib_citations),
                  has_original_ref |-> HasOriginalRef(in_text_citations)]

\* app.py, RESULT step: what is shown for the dict v. v.get(key) is None
\* for a key the dict does not have, and None, False and an empty list all
\* take the else side. original_ref is the kind of the first message;
\* orphans_shown tells whether st.error was called, and orphans is what it
\* listed.
ValidationView(v) ==
    LET has_original_ref == "has_original_ref" \in DOMAIN v /\ v.has_original_ref
        orphans_in_text == IF "orphans_in_text" \in DOMAIN v
                           THEN v.orphans_in_text ELSE {}
    IN  [original_ref  |-> IF has_original_ref THEN "success" ELSE "warning",
         orphans_shown |-> orphans_in_text # {},
         orphans       |-> orphans_in_text]

\* The pieces the checked texts are put together from.
CiteTokens == { <<"[","0","]">>, <<"[","1","]">>, <<"[","1">>, <<"r","e">>,
                <<"S","o","u","r","c","e","s">>,
                <<"r","e","f","e","r","e","n","c","e","s">>,
                <<"B","I","B","L","I","O","G","R","A","P","H","Y">> }

CiteTexts == {Concat(ts) : ts \in SeqsUpTo(CiteTokens, MaxCiteTokens)}

\* The state of a function that is not running.
IndexIdle ==
    /\ bibliography = <<>>
    /\ ddg_results = <<>>
    /\ res_pos = 0
    /\ seen_domains = {}
    /\ findings = <<>>
    /\ ddg_sources = <<>>

LinksIdle ==
    /\ urls = <<>>
    /\ url_pos = 0
    /\ valid_count = 0
    /\ broken_links = <<>>
    /\ requested = <<>>
    /\ responses = <<>>

\* Lines 56-66 of app.py: the session state of a new session.
SessionInit ==
    /\ step = "UPLOAD"
    /\ chapters = <<>>
    /\ processed_results = <<>>
    /\ source_metadata = <<>>

\* The RESULT step has rendered nothing.
ResultIdle ==
    /\ academic_sources = <<>>
    /\ web_sources = <<>>
    /\ bibliography_md = None

AppIdle == SessionInit /\ proc_i = 0 /\ ResultIdle

InitCite ==
    /\ pc = "call"
    /\ text \in CiteTexts
    /\ val = None
    /\ view = None
    /\ LinksIdle
    /\ IndexIdle
    /\ AppIdle

ValidateCitations ==
    /\ pc = "call"
    /\ val' = validate_citations(text)
    /\ view' = ValidationView(validate_citations(text))
    /\ pc' = "done"
    /\ UNCHANGED <<text, linkVars, appVars, indexVars>>

NextCite == ValidateCitations

SpecCite == InitCite /\ [][NextCite]_vars

(* Claims about validate_citations. *)

IsReport(v) == "orphans_in_text" \in DOMAIN v

\* A marker word occurs somewhere in s, in any letter case.
HasMarker(s) ==
    \E i \in 1..Len(s), w \in 1..Len(MarkerWords) :
        MatchAtIgnoreCase(s, i, MarkerWords[w])

\* A marker word occurs at position i of s with no letter or digit next to it.
IsWordChar(c) == IsLetter(c) \/ c \in Digits \/ c = "_"
StandaloneMarkerAt(s, i, w) ==
    /\ MatchAtIgnoreCase(s, i, MarkerWords[w])
    /\ (i = 1 \/ ~IsWordChar(s[i - 1]))
    /\ (i + Len(MarkerWords[w]) > Len(s) \/ ~IsWordChar(s[i + Len(MarkerWords[w])]))

HasStandaloneMarker(s) ==
    \E i \in 1..Len(s), w \in 1..Len(MarkerWords) : StandaloneMarkerAt(s, i, w)

\* The text after the first standalone marker word of s.
TailAfterFirstStandaloneMarker(s) ==
    LET i == CHOOSE j \in 1..Len(s) :
                 /\ \E w \in 1..Len(MarkerWords) : StandaloneMarkerAt(s, j, w)
                 /\ \A k \in 1..(j - 1), w \in 1..Len(MarkerWords) :
                        ~StandaloneMarkerAt(s, k, w)
        w == CHOOSE v \in 1..Len(MarkerWords) : StandaloneMarkerAt(s, i, v)
    IN  From(s, i + Len(MarkerWords[w]))

\* "[0]" occurs in s.
CitesZero(s) ==
    \E i \in 1..Len(s) : MatchAt(s, i, <<"[","0","]">>)

\* C1: a text with no marker word, in any letter case, gets the error
\* outcome: a dict with the key error and none of the report's keys,
\* whatever bracketed integers it holds.
C1_NoMarkerGivesError ==
    (pc = "done" /\ ~HasMarker(text)) => DOMAIN val = {"error"}

C1_Witness ==
    /\ pc = "done"
    /\ ~HasMarker(text)
    /\ CitationSet(text) # {}
    /\ DOMAIN val = {"error"}

\* C2: for a text with a marker, the bibliography citations are the
\* bracketed integers of the tail after the FIRST standalone marker word.
C2_BibTextAfterFirstMarker ==
    (pc = "done" /\ HasStandaloneMarker(text)) =>
        /\ IsReport(val)
        /\ val.bib_citations = CitationSet(TailAfterFirstStandaloneMarker(text))

\* C3: orphans_in_text is the in-text set less the bibliography set and
\* orphans_in_bib is the bibliography set less the in-text set.
C3_OrphansAreSetDifferences ==
    (pc = "done" /\ HasMarker(text)) =>
        LET T == CitationSet(text)
            B == CitationSet(BibText(re_split(text)))
        IN  /\ IsReport(val)
            /\ val.orphans_in_text = {c \in T : c \notin B}
            /\ val.orphans_in_bib = {c \in B : c \notin T}

C3_Witness ==
    /\ pc = "done"
    /\ IsReport(val)
    /\ <<"1">> \in val.orphans_in_text
    /\ val.bib_citations = {<<"0">>}

\* C4: has_original_ref is true exactly when [0] occurs in the full text.
C4_HasOriginalRefIffZeroCited ==
    (pc = "done" /\ HasMarker(text)) =>
        /\ IsReport(val)
        /\ val.has_original_ref = CitesZero(text)

C4_Witness ==
    /\ pc = "done"
    /\ IsReport(val)
    /\ val.has_original_ref
    /\ <<"0">> \in val.bib_citations
    /\ val.orphans_in_text = {<<"1">>}

\* C5: orphans_in_text, orphans_in_bib and the intersection of the two
\* citation sets are pairwise disjoint and their union is the union of
\* the two citation sets.
C5_OrphansPartitionUnion ==
    (pc = "done" /\ HasMarker(text)) =>
        LET T == CitationSet(text)
            B == CitationSet(BibText(re_split(text)))
            A == val.orphans_in_text
            O == val.orphans_in_bib
        IN  /\ IsReport(val)
            /\ A \cap O = {}
            /\ A \cap (T \cap B) = {}
            /\ O \cap (T \cap B) = {}
            /\ A \cup O \cup (T \cap B) = T \cup B

C5_Witness ==
    /\ pc = "done"
    /\ IsReport(val)
    /\ val.orphans_in_text # {}
    /\ val.text_citations \cap val.bib_citations # {}

\* What the view tells about orphan citations.
OrphanOutcome(v) == [shown |-> v.orphans_shown, orphans |-> v.orphans]

\* The view of a chapter whose citations are fully consistent.
ConsistentView ==
    ValidationView([text_citations   |-> {<<"0">>},
                    bib_citations    |-> {<<"0">>},
                    orphans_in_text  |-> {},
                    orphans_in_bib   |-> {},
                    has_original_ref |-> TRUE])

\* C14: a chapter for which validate_citations reports a missing
\* bibliography is not shown with the orphan outcome of a chapter whose
\* citations are fully consistent.
C14_MissingBibliographyNotShownAsConsistent ==
    (pc = "done" /\ ~IsReport(val)) =>
        OrphanOutcome(view) # OrphanOutcome(ConsistentView)

-----------------------------------------------------------------------------
(* validator.validate_links *)

\* The characters of [$-_@.&+] (the range from $ to _ holds the digits, the
\* capital letters and the punctuation between them) and of [!*\\(\\),].
\* A % of an escape %XX is in the range already.
UrlPunctuation == {"$","%","&","'","(",")","*","+",",","-",".","/",":",";",
                   "<","=",">","?","@","[","\\","]","^","_","!"}

IsUrlChar(c) == IsLetter(c) \/ c \in Digits \/ c \in UrlPunctuation

\* Length of the run of URL characters of s that starts at position i.
RECURSIVE UrlCharRun(_, _)
UrlCharRun(s, i) ==
    IF i <= Len(s) /\ IsUrlChar(s[i]) THEN 1 + UrlCharRun(s, i + 1) ELSE 0

\* Where the URL characters start when http[s]?:// matches at position i,
\* else 0.
SchemeEnd(s, i) ==
    IF MatchAt(s, i, <<"h","t","t","p","s",":","/","/">>) THEN i + 8
    ELSE IF MatchAt(s, i, <<"h","t","t","p",":","/","/">>) THEN i + 7
    ELSE 0

\* re.findall(r'http[s]?://(?:...)+', s): the non-overlapping matches from
\* left to right, each running on while URL characters follow.
RECURSIVE FindUrlsFrom(_, _)
FindUrlsFrom(s, i) ==
    IF i > Len(s) THEN <<>>
    ELSE LET b == SchemeEnd(s, i)
             n == IF b = 0 THEN 0 ELSE UrlCharRun(s, b)
         IN  IF n >= 1
             THEN << SubSeq(s, i, b + n - 1) >> \o FindUrlsFrom(s, b + n)
             ELSE FindUrlsFrom(s, i + 1)

re_findall_urls(s) == FindUrlsFrom(s, 1)

\* A slip that drops set(): every occurrence is checked.
UrlListsWithDuplicates(found) == {found}

\* list(set(found)): each distinct URL once, in an order the set decides.
UrlLists(found) ==
    {f \in [1..Cardinality(Range(found)) -> Range(found)] : Range(f) = Range(found)}

\* response.status_code < 400
BrokenFrom == 400

\* A slip that takes the first broken status code for a valid one.
IsValidStatusInclusive(status_code) == status_code <= BrokenFrom

IsValidStatus(status_code) == status_code < BrokenFrom

\* What requests.get can do: answer with a status code, or raise.
StatusCodes == {200, 399, 400}
RequestErrors == {"ConnectTimeout"}

\* The pieces the validated texts are put together from.
LinkTokens == { <<"h","t","t","p",":","/","/","a">>,
                <<"h","t","t","p","s",":","/","/","b">>,
                <<")">>, <<" ">> }

LinkTexts == {Concat(ts) : ts \in SeqsUpTo(LinkTokens, MaxLinkTokens)}

InitLinks ==
    /\ pc = "call"
    /\ text \in LinkTexts
    /\ val = None
    /\ view = None
    /\ LinksIdle
    /\ IndexIdle
    /\ AppIdle

\* Lines 9-15: the URLs are extracted and the results start empty.
ExtractUrls ==
    /\ pc = "call"
    /\ urls' \in UrlLists(re_findall_urls(text))
    /\ url_pos' = 0
    /\ broken_links' = <<>>
    /\ valid_count' = 0
    /\ pc' = "loop"
    /\ UNCHANGED <<citeVars, requested, responses, appVars, indexVars>>

\* A slip that leaves the request outside the try: an error ends the call.
CheckUrlUncaught ==
    /\ pc = "loop"
    /\ url_pos < Len(urls)
    /\ LET url == urls[url_pos + 1]
       IN  /\ requested' = Append(requested, url)
           /\ url_pos' = url_pos + 1
           /\ \/ \E status_code \in StatusCodes :
                    /\ responses' = Append(responses, [status_code |-> status_code])
                    /\ pc' = pc
                    /\ IF IsValidStatus(status_code)
                       THEN /\ valid_count' = valid_count + 1
                            /\ UNCHANGED broken_links
                       ELSE /\ broken_links' =
                                 Append(broken_links, <<url, [status_code |-> status_code]>>)
                            /\ UNCHANGED valid_count
              \/ \E e \in RequestErrors :
                    /\ responses' = Append(responses, [error |-> e])
                    /\ pc' = "raised"
                    /\ UNCHANGED <<valid_count, broken_links>>
    /\ UNCHANGED <<citeVars, urls, appVars, indexVars>>

\* A slip that takes the loop's position for the count of valid URLs.
CheckUrlCountsPosition ==
    /\ pc = "loop"
    /\ url_pos < Len(urls)
    /\ LET url == urls[url_pos + 1]
       IN  /\ requested' = Append(requested, url)
           /\ url_pos' = url_pos + 1
           /\ \/ \E status_code \in StatusCodes :
                    /\ responses' = Append(responses, [status_code |-> status_code])
                    /\ IF IsValidStatus(status_code)
                       THEN /\ valid_count' = url_pos + 1
                            /\ UNCHANGED broken_links
                       ELSE /\ broken_links' =
                                 Append(broken_links, <<url, [status_code |-> status_code]>>)
                            /\ UNCHANGED valid_count
              \/ \E e \in RequestErrors :
                    /\ responses' = Append(responses, [error |-> e])
                    /\ broken_links' = Append(broken_links, <<url, [error |-> e]>>)
                    /\ UNCHANGED valid_count
    /\ UNCHANGED <<pc, citeVars, urls, appVars, indexVars>>

\* Lines 17-26: one turn of the loop, for the next URL of the list.
\* requests.get answers with a status code or raises; the except branch
\* takes every Exception.
CheckUrl ==
    /\ pc = "loop"
    /\ url_pos < Len(urls)
    /\ LET url == urls[url_pos + 1]
       IN  /\ requested' = Append(requested, url)
           /\ url_pos' = url_pos + 1
           /\ \/ \E status_code \in StatusCodes :
                    /\ responses' = Append(responses, [status_code |-> status_code])
                    /\ IF IsValidStatus(status_code)
                       THEN /\ valid_count' = valid_count + 1
                            /\ UNCHANGED broken_links
                       ELSE /\ broken_links' =
                                 Append(broken_links, <<url, [status_code |-> status_code]>>)
                            /\ UNCHANGED valid_count
              \/ \E e \in RequestErrors :
                    /\ responses' = Append(responses, [error |-> e])
                    /\ broken_links' = Append(broken_links, <<url, [error |-> e]>>)
                    /\ UNCHANGED valid_count
    /\ UNCHANGED <<pc, citeVars, urls, appVars, indexVars>>

\* Line 28: the loop is over and the pair is returned.
ReturnLinks ==
    /\ pc = "loop"
    /\ url_pos = Len(urls)
    /\ pc' = "done"
    /\ UNCHANGED <<citeVars, linkVars, appVars, indexVars>>

NextLinks == ExtractUrls \/ CheckUrl \/ ReturnLinks

SpecLinks == InitLinks /\ [][NextLinks]_vars

(* Claims about validate_links. *)

DistinctUrls(s) == Range(re_findall_urls(s))

TimesRequested(u) == Cardinality({k \in DOMAIN requested : requested[k] = u})
TimesBroken(u) == Cardinality({k \in DOMAIN broken_links : broken_links[k][1] = u})

\* C10: when validate_links returns, each distinct URL of the text was
\* requested once, is in broken once or counted valid but never both, and
\* valid_count + len(broken) is the number of distinct URLs.
C10_OneVerdictPerDistinctUrl ==
    pc = "done" =>
        /\ \A u \in DistinctUrls(text) : TimesRequested(u) = 1 /\ TimesBroken(u) <= 1
        /\ \A k \in DOMAIN requested : requested[k] \in DistinctUrls(text)
        /\ \A k \in DOMAIN broken_links : broken_links[k][1] \in DistinctUrls(text)
        /\ valid_count = Cardinality({u \in DistinctUrls(text) : TimesBroken(u) = 0})
        /\ valid_count + Len(broken_links) = Cardinality(DistinctUrls(text))

\* A URL that occurs twice in the text, one valid and one broken URL.
C10_Witness ==
    /\ pc = "done"
    /\ Len(re_findall_urls(text)) > Cardinality(DistinctUrls(text))
    /\ valid_count = 1
    /\ Len(broken_links) = 1

\* What a call of requests.get did.
IsError(r) == "error" \in DOMAIN r
IsBelow400(r) == ~IsError(r) /\ r.status_code < 400

\* C11: validate_links never raises and never stops early. Every URL
\* whose request failed is in broken with its error, the loop has a
\* request for every position it has passed, and the call returns only
\* after the last URL, with every URL of the text checked.
C11_NeverRaisesNorStopsEarly ==
    /\ pc \in {"call", "loop", "done"}
    /\ pc = "loop" => url_pos <= Len(urls) /\ Len(responses) = url_pos
    /\ pc = "done" => url_pos = Len(urls) /\ Len(responses) = Len(urls)
    /\ \A k \in DOMAIN responses :
           IsError(responses[k]) =>
               \E j \in DOMAIN broken_links :
                   /\ broken_links[j][1] = requested[k]
                   /\ IsError(broken_links[j][2])
                   /\ broken_links[j][2].error = responses[k].error
    /\ pc = "done" => \A u \in DistinctUrls(text) : TimesRequested(u) >= 1

\* The first request failed and a later URL was still checked and valid.
C11_Witness ==
    /\ pc = "done"
    /\ Len(responses) >= 2
    /\ IsError(responses[1])
    /\ valid_count >= 1
    /\ Len(broken_links) >= 1

\* The entries of broken for the URL u.
BrokenReasons(u) ==
    {broken_links[j][2] : j \in {i \in DOMAIN broken_links : broken_links[i][1] = u}}

OutcomeOf(u) == responses[CHOOSE k \in DOMAIN requested : requested[k] = u]

\* C13: the result is a function of the text and of what each URL's
\* request did, whatever the order of the checks: valid_count counts the
\* URLs that answered below 400 and broken holds the others, each once.
C13_ResultIndependentOfOrder ==
    pc = "done" =>
        LET D == DistinctUrls(text)
            broken == {u \in D : ~IsBelow400(OutcomeOf(u))}
        IN  /\ \A u \in D : TimesRequested(u) = 1
            /\ valid_count = Cardinality(D \ broken)
            /\ Len(broken_links) = Cardinality(broken)
            /\ \A u \in broken : BrokenReasons(u) = {OutcomeOf(u)}
            /\ \A u \in D \ broken : BrokenReasons(u) = {}

\* Two URLs checked in the other order than the text has them, one valid.
C13_Witness ==
    /\ pc = "done"
    /\ Len(urls) = 2
    /\ urls[1] # re_findall_urls(text)[1]
    /\ valid_count = 1
    /\ Len(broken_links) = 1

\* The URL whose connection the local response holds: with stream=True the
\* body is not read, and the response is never closed, so the connection
\* stays with the last response the loop has got.
HeldConnections ==
    LET got == {k \in DOMAIN responses : ~IsError(responses[k])}
    IN  IF got = {} THEN {}
        ELSE {requested[CHOOSE k \in got : \A j \in got : j <= k]}

\* C16: no connection is held when the check of the next URL starts.
C16_NoConnectionHeldBetweenChecks ==
    (pc = "loop" /\ url_pos < Len(urls)) => HeldConnections = {}

-----------------------------------------------------------------------------
(* updater.extract_sources_and_bibliography and researcher.search_web_ddg *)

\* str() of a natural number, as the f-strings format it.
DigitChar(d) == <<"0","1","2","3","4","5","6","7","8","9">>[d + 1]
RECURSIVE Decimal(_)
Decimal(n) ==
    IF n < 10 THEN <<DigitChar(n)>>
    ELSE Decimal(n \div 10) \o <<DigitChar(n % 10)>>

\* A slip that numbers the URLs with enumerate's i.
BibliographyEntryFromZero(i, url) == <<"[">> \o Decimal(i) \o <<"]"," ">> \o url

\* updater.py line 68: f"[{i+1}] {url}"
BibliographyEntry(i, url) == <<"[">> \o Decimal(i + 1) \o <<"]"," ">> \o url

\* updater.py line 66: "[0] Original Document"
OriginalDocumentEntry ==
    <<"[","0","]"," ","O","r","i","g","i","n","a","l"," ",
      "D","o","c","u","m","e","n","t">>

\* updater.py lines 66-70, for the list urls of line 64; enumerate counts
\* from 0.
BuildBibliography(url_list) ==
    <<OriginalDocumentEntry>> \o
        [k \in 1..Len(url_list) |-> BibliographyEntry(k - 1, url_list[k])]

\* The pieces the texts given to extract_sources_and_bibliography are put
\* together from.
BibTokens == { <<"h","t","t","p",":","/","/","a"," ">>,
               <<"h","t","t","p","s",":","/","/","b"," ">>,
               <<"r","e"," ">> }

BibTexts == {Concat(ts) : ts \in SeqsUpTo(BibTokens, MaxBibTokens)}

\* researcher.py line 23: max_results=8
max_results == 8

\* researcher.py line 55: len(sources) >= 5
SourceCap == 5

\* urlparse(link).netloc: what stands between the // after the scheme and
\* the next /, ? or #; empty when the link has no ://.
NetlocStart(link) ==
    IF \E i \in 1..Len(link) : MatchAt(link, i, <<":","/","/">>)
    THEN 3 + CHOOSE i \in 1..Len(link) :
                 /\ MatchAt(link, i, <<":","/","/">>)
                 /\ \A j \in 1..(i - 1) : ~MatchAt(link, j, <<":","/","/">>)
    ELSE 0

RECURSIVE NetlocRun(_, _)
NetlocRun(link, i) ==
    IF i <= Len(link) /\ link[i] \notin {"/","?","#"}
    THEN 1 + NetlocRun(link, i + 1) ELSE 0

Netloc(link) ==
    IF NetlocStart(link) = 0 THEN <<>>
    ELSE SubSeq(link, NetlocStart(link),
                NetlocStart(link) + NetlocRun(link, NetlocStart(link)) - 1)

\* urlparse raises ValueError for a netloc with one square bracket and not
\* the other.
UrlparseRaises(link) ==
    ("[" \in Range(Netloc(link))) # ("]" \in Range(Netloc(link)))

\* The results ddgs.text gives: two of one domain, one of another, one
\* whose link urlparse refuses.
ResultA1 == [title |-> <<"A","1">>, href |-> <<"h","t","t","p",":","/","/","a","/","1">>]
ResultA2 == [title |-> <<"A","2">>, href |-> <<"h","t","t","p",":","/","/","a","/","2">>]
ResultB == [title |-> <<"B">>, href |-> <<"h","t","t","p",":","/","/","b">>]
ResultBad == [title |-> <<"X">>, href |-> <<"h","t","t","p",":","/","/","[">>]
ResultPool == {ResultA1, ResultA2, ResultB, ResultBad}

\* max_results results, each of a domain of its own.
FullResults ==
    [k \in 1..max_results |->
        [title |-> <<"D">> \o Decimal(k),
         href  |-> <<"h","t","t","p",":","/","/","d">> \o Decimal(k)]]

DdgResultLists == SeqsUpTo(ResultPool, MaxDdgResults) \cup {FullResults}

\* researcher.py line 58: the block added to findings for an accepted
\* result; number is the text of len(sources)+1 between the brackets.
WebSourceBlock(n, title, link) ==
    [kind |-> "WEB SOURCE", number |-> Decimal(n), title |-> title, url |-> link]

\* researcher.py lines 38 and 64-65: the text returned instead of findings.
MessageBlock(message) == [kind |-> "message", text |-> message]

InitIndex ==
    /\ pc = "call"
    /\ text \in BibTexts
    /\ val = None
    /\ view = None
    /\ LinksIdle
    /\ IndexIdle
    /\ AppIdle

\* updater.py lines 58-70.
ExtractSourcesAndBibliography ==
    /\ pc = "call"
    /\ urls' \in UrlLists(re_findall_urls(text))
    /\ bibliography' = BuildBibliography(urls')
    /\ pc' = "extracted"
    /\ UNCHANGED <<citeVars, url_pos, valid_count, broken_links, requested,
                   responses, appVars, searchVars>>

\* researcher.py lines 27-40 and 63-65: the call of ddgs.text, which gives
\* a list of results, gives none, or raises.
SearchWebDdg ==
    /\ pc = "extracted"
    /\ res_pos' = 0
    /\ seen_domains' = {}
    /\ ddg_sources' = <<>>
    /\ \/ /\ ddg_results' \in DdgResultLists \ {<<>>}
          /\ findings' = <<>>
          /\ pc' = "results"
       \/ /\ ddg_results' = <<>>
          /\ findings' = <<MessageBlock("No web results found via DuckDuckGo.")>>
          /\ pc' = "done"
       \/ /\ ddg_results' = <<>>
          /\ findings' = <<MessageBlock("Error during web search")>>
          /\ pc' = "done"
    /\ UNCHANGED <<citeVars, linkVars, appVars, bibliography>>

\* researcher.py lines 41-62: one turn of the loop over results.
TakeResult ==
    /\ pc = "results"
    /\ res_pos < Len(ddg_results)
    /\ LET r == ddg_results[res_pos + 1]
           title == r.title
           link == r.href
           domain == Netloc(link)
       IN  IF ~UrlparseRaises(link) /\ domain \in seen_domains
           THEN /\ res_pos' = res_pos + 1
                /\ UNCHANGED <<pc, seen_domains, findings, ddg_sources>>
           ELSE /\ seen_domains' = IF UrlparseRaises(link) THEN seen_domains
                                   ELSE seen_domains \cup {domain}
                /\ IF Len(ddg_sources) >= SourceCap
                   THEN /\ pc' = "done"
                        /\ UNCHANGED <<res_pos, findings, ddg_sources>>
                   ELSE /\ findings' =
                             Append(findings,
                                    WebSourceBlock(Len(ddg_sources) + 1, title, link))
                        /\ ddg_sources' = Append(ddg_sources, [title |-> title, url |-> link])
                        /\ res_pos' = res_pos + 1
                        /\ UNCHANGED pc
    /\ UNCHANGED <<citeVars, linkVars, appVars, bibliography, ddg_results>>

\* researcher.py line 67: the loop has taken every result.
ReturnFindings ==
    /\ pc = "results"
    /\ res_pos = Len(ddg_results)
    /\ pc' = "done"
    /\ UNCHANGED <<citeVars, linkVars, appVars, indexVars>>

NextIndex ==
    \/ ExtractSourcesAndBibliography
    \/ SearchWebDdg
    \/ TakeResult
    \/ ReturnFindings

SpecIndex == InitIndex /\ [][NextIndex]_vars

-----------------------------------------------------------------------------
(* Claims about the indices of sources. *)

\* The number a string of digits stands for.
DigitValue(c) == CHOOSE d \in 0..9 : DigitChar(d) = c
RECURSIVE ParseDecimal(_)
ParseDecimal(ds) ==
    IF ds = <<>> THEN 0
    ELSE 10 * ParseDecimal(SubSeq(ds, 1, Len(ds) - 1)) + DigitValue(ds[Len(ds)])

\* The index an entry of the bibliography starts with, and what follows it.
EntryIndex(entry) == FindCitationsFrom(entry, 1)[1]
EntryRest(entry) == From(entry, Len(EntryIndex(entry)) + 4)

\* The blocks of findings that are web sources.
WebBlocks == SelectSeq(findings, LAMBDA b : b.kind = "WEB SOURCE")

\* C15: entry [0] of the bibliography is the original document and the k
\* extracted URLs have the indices 1..k, each once; the web sources of the
\* findings are numbered 1..k in the order they were accepted, none 0.
C15_IndexZeroReserved ==
    /\ pc \in {"extracted", "results", "done"} =>
          LET k == Cardinality(DistinctUrls(text))
          IN  /\ Len(bibliography) = k + 1
              /\ ParseDecimal(EntryIndex(bibliography[1])) = 0
              /\ EntryRest(bibliography[1]) = <<"O","r","i","g","i","n","a","l"," ","D","o","c","u","m","e","n","t">>
              /\ \A n \in 1..k :
                    Cardinality({j \in 2..(k + 1) :
                        ParseDecimal(EntryIndex(bibliography[j])) = n}) = 1
              /\ \A j \in 2..(k + 1) :
                    /\ ParseDecimal(EntryIndex(bibliography[j])) # 0
                    /\ EntryRest(bibliography[j]) \in DistinctUrls(text)
              /\ \A u \in DistinctUrls(text) :
                    Cardinality({j \in 2..(k + 1) : EntryRest(bibliography[j]) = u}) = 1
    /\ pc \in {"results", "done"} =>
          /\ Len(WebBlocks) = Len(ddg_sources)
          /\ Len(ddg_sources) <= 5
          /\ \A n \in DOMAIN WebBlocks :
                /\ ParseDecimal(WebBlocks[n].number) = n
                /\ WebBlocks[n].number # <<"0">>
                /\ WebBlocks[n].url = ddg_sources[n].url
                /\ WebBlocks[n].title = ddg_sources[n].title

\* Two URLs are in the bibliography; the search skipped a result of a
\* domain seen before and accepted two results.
C15_Witness ==
    /\ pc = "done"
    /\ Len(bibliography) = 3
    /\ Len(ddg_results) = 3
    /\ Len(ddg_sources) = 2
    /\ Len(WebBlocks) = 2

-----------------------------------------------------------------------------
(* app.py, RESULT step: the global bibliography *)

\* A Python dict with its insertion order: a sequence of items, each key once.
DictKeys(d) == {d[k].idx : k \in DOMAIN d}
DictValues(d) == [k \in DOMAIN d |-> d[k].sources]
DictGet(d, key) == d[CHOOSE k \in DOMAIN d : d[k].idx = key].sources

\* d[key] = value: a key the dict holds keeps its place, a new one goes last.
DictSet(d, key, value) ==
    IF key \in DictKeys(d)
    THEN [k \in DOMAIN d |->
            IF d[k].idx = key THEN [idx |-> key, sources |-> value] ELSE d[k]]
    ELSE Append(d, [idx |-> key, sources |-> value])

AcademicTag == <<"[","A","c","a","d","e","m","i","c","]">>
AcademicPrefix == AcademicTag \o <<" ">>

\* str.startswith
StartsWith(s, prefix) == MatchAt(s, 1, prefix)

\* s.replace(old, new): every non-overlapping occurrence, from left to right.
RECURSIVE ReplaceFrom(_, _, _, _)
ReplaceFrom(s, i, old, new) ==
    IF i > Len(s) THEN <<>>
    ELSE IF MatchAt(s, i, old)
         THEN new \o ReplaceFrom(s, i + Len(old), old, new)
         ELSE <<s[i]>> \o ReplaceFrom(s, i + 1, old, new)

str_replace(s, old, new) == ReplaceFrom(s, 1, old, new)

\* Line 406: s['title'].startswith("[Academic]")
IsAcademic(s) == StartsWith(s.title, AcademicTag)

\* A slip that never finds a URL in seen_urls.
IsSeenNever(s, seen_urls) == FALSE

\* Line 405: s['url'] in seen_urls
IsSeen(s, seen_urls) == s.url \in seen_urls

\* A slip that lets a later entry take the place of the one kept for its URL.
AggregateEntryLastWins(acc, s) ==
    LET swap(list) == [k \in DOMAIN list |->
                          IF list[k].url = s.url THEN s ELSE list[k]]
    IN  IF IsSeen(s, acc.seen_urls)
        THEN [acc EXCEPT !.academic_sources = swap(@), !.web_sources = swap(@)]
        ELSE IF IsAcademic(s)
             THEN [acc EXCEPT !.academic_sources = Append(@, s),
                              !.seen_urls = @ \cup {s.url}]
             ELSE [acc EXCEPT !.web_sources = Append(@, s),
                              !.seen_urls = @ \cup {s.url}]

\* Lines 405-410: the body of the inner loop, for the entry s.
AggregateEntry(acc, s) ==
    IF IsSeen(s, acc.seen_urls)
    THEN acc
    ELSE IF IsAcademic(s)
         THEN [acc EXCEPT !.academic_sources = Append(@, s),
                          !.seen_urls = @ \cup {s.url}]
         ELSE [acc EXCEPT !.web_sources = Append(@, s),
                          !.seen_urls = @ \cup {s.url}]

RECURSIVE AggregateFrom(_, _, _)
AggregateFrom(entries, k, acc) ==
    IF k > Len(entries) THEN acc
    ELSE AggregateFrom(entries, k + 1, AggregateEntry(acc, entries[k]))

\* The entries in the order the two loops of lines 403-404 visit them:
\* source_metadata.values() in the dict's order, each list in its own.
IterationOrder(meta) == Concat(DictValues(meta))

\* Lines 399-410.
Aggregate(meta) ==
    AggregateFrom(IterationOrder(meta), 1,
                  [academic_sources |-> <<>>, web_sources |-> <<>>, seen_urls |-> {}])

\* Lines 418 and 439: the title an academic entry is shown with.
AcademicDisplayTitle(title) == str_replace(title, AcademicPrefix, <<>>)

\* Lines 412-428 and 435-447: the numbered entries of the two sections, and
\* whether the "no sources" text is shown instead.
RenderBibliography(academic, web) ==
    [academic |-> [k \in DOMAIN academic |->
                      [n |-> k, title |-> AcademicDisplayTitle(academic[k].title),
                       url |-> academic[k].url]],
     web      |-> [k \in DOMAIN web |->
                      [n |-> k, title |-> web[k].title, url |-> web[k].url]],
     no_sources |-> (academic = <<>> /\ web = <<>>)]

\* The source entries of the model. Three share a URL and differ in title
\* and category; the fourth URL differs from it by a trailing slash.
EntryP == [title |-> AcademicPrefix \o <<"P">>, url |-> "a.com"]
EntryQ == [title |-> AcademicPrefix \o AcademicPrefix \o <<"Q">>, url |-> "a.com"]
EntryW == [title |-> <<"W">>, url |-> "a.com"]
EntryR == [title |-> AcademicTag \o <<"R">>, url |-> "a.com/"]
Entries == {EntryP, EntryQ, EntryW, EntryR}

\* The per-chapter source lists the aggregation is checked on.
AggSourceLists ==
    {<<>>} \cup {<<e>> : e \in Entries}
           \cup {<<EntryP, EntryQ>>, <<EntryW, EntryP>>, <<EntryR, EntryW>>,
                 <<EntryQ, EntryR>>}

ChapterIndices == 0..(MaxChapters - 1)

\* Every dict of source lists by chapter index, in every insertion order.
AggInputs ==
    {d \in SeqsUpTo([idx : ChapterIndices, sources : AggSourceLists], MaxChapters) :
        \A j, k \in DOMAIN d : d[j].idx = d[k].idx => j = k}

InitAgg ==
    /\ pc = "call"
    /\ text = <<>>
    /\ val = None
    /\ view = None
    /\ LinksIdle
    /\ IndexIdle
    /\ step = "RESULT"
    /\ chapters = <<>>
    /\ processed_results = <<>>
    /\ source_metadata \in AggInputs
    /\ proc_i = 0
    /\ ResultIdle

\* Lines 398-447 on the session's source_metadata.
AggregateBibliography ==
    /\ pc = "call"
    /\ LET agg == Aggregate(source_metadata)
       IN  /\ academic_sources' = agg.academic_sources
           /\ web_sources' = agg.web_sources
           /\ bibliography_md' = RenderBibliography(agg.academic_sources, agg.web_sources)
    /\ pc' = "done"
    /\ UNCHANGED <<citeVars, linkVars, indexVars, sessionVars, proc_i>>

NextAgg == AggregateBibliography

SpecAgg == InitAgg /\ [][NextAgg]_vars

(* Claims about the aggregation. *)

Kept == academic_sources \o web_sources

\* The position in the iteration order of the first entry with URL u.
FirstPosition(order, u) ==
    CHOOSE k \in DOMAIN order :
        /\ order[k].url = u
        /\ \A j \in 1..(k - 1) : order[j].url # u

InputUrls(order) == {order[k].url : k \in DOMAIN order}

\* C6: after aggregation no URL is in both sequences and none is twice in
\* one: each URL string occurs at most once in the two taken together, and
\* URLs are the same only when their strings are equal, so every URL
\* string of the input is there.
C6_UrlAtMostOnce ==
    pc = "done" =>
        /\ \A j, k \in DOMAIN Kept : Kept[j].url = Kept[k].url => j = k
        /\ \A u \in InputUrls(IterationOrder(source_metadata)) :
               \E k \in DOMAIN Kept : Kept[k].url = u

\* The same URL came in as an academic and as a web entry of two chapters,
\* with a URL that differs from it by a trailing slash.
C6_Witness ==
    /\ pc = "done"
    /\ Len(source_metadata) = 2
    /\ EntryP \in Range(source_metadata[1].sources)
    /\ source_metadata[2].sources = <<EntryR, EntryW>>
    /\ Len(Kept) = 2

\* C7: first-seen-wins. For each URL of the input the output holds one
\* entry, the first one of the iteration order with its title, in the
\* sequence of that entry's category, and the entries of a sequence stand
\* in the order of their first occurrences.
C7_FirstSeenWins ==
    pc = "done" =>
        LET order == IterationOrder(source_metadata)
            first(u) == order[FirstPosition(order, u)]
        IN  /\ {Kept[k].url : k \in DOMAIN Kept} = InputUrls(order)
            /\ Len(Kept) = Cardinality(InputUrls(order))
            /\ \A k \in DOMAIN academic_sources :
                   /\ academic_sources[k] = first(academic_sources[k].url)
                   /\ IsAcademic(first(academic_sources[k].url))
            /\ \A k \in DOMAIN web_sources :
                   /\ web_sources[k] = first(web_sources[k].url)
                   /\ ~IsAcademic(first(web_sources[k].url))
            /\ \A j, k \in DOMAIN academic_sources :
                   j < k => FirstPosition(order, academic_sources[j].url)
                              < FirstPosition(order, academic_sources[k].url)
            /\ \A j, k \in DOMAIN web_sources :
                   j < k => FirstPosition(order, web_sources[j].url)
                              < FirstPosition(order, web_sources[k].url)

\* Two chapters give the same URL under two titles: one academic entry,
\* shown with the title of the first.
C7_Witness ==
    /\ pc = "done"
    /\ DictValues(source_metadata) = << <<EntryP>>, <<EntryQ>> >>
    /\ academic_sources = <<EntryP>>
    /\ web_sources = <<>>
    /\ bibliography_md.academic = << [n |-> 1, title |-> <<"P">>, url |-> "a.com"] >>

\* The title of an entry with the leading "[Academic] " taken off once.
StripLeadingPrefix(title) ==
    IF StartsWith(title, AcademicPrefix)
    THEN From(title, Len(AcademicPrefix) + 1)
    ELSE title

\* C9: an entry is in the academic sequence exactly when its title starts
\* with "[Academic] " (the tag and one space); an academic entry is shown
\* with that leading prefix removed and the rest unchanged, a web entry
\* with its title unchanged.
C9_PrefixRoutingAndDisplay ==
    pc = "done" =>
        /\ \A k \in DOMAIN academic_sources :
               /\ StartsWith(academic_sources[k].title, AcademicPrefix)
               /\ bibliography_md.academic[k].title
                     = StripLeadingPrefix(academic_sources[k].title)
        /\ \A k \in DOMAIN web_sources :
               /\ ~StartsWith(web_sources[k].title, AcademicPrefix)
               /\ bibliography_md.web[k].title = web_sources[k].title

-----------------------------------------------------------------------------
(* app.py: the session workflow *)

\* What a chapter of st.session_state.chapters is known by: chapters from
\* the analysis (id "ch_...") and chapters added by hand (id "manual_...").
AnalyzedChapter == "analyzed"
ManualChapter == "manual"

\* The texts processed_results holds: what update_chapter returned, the
\* text of the PROCESSING step's except branch, the default of line 356.
UpdatedText == "updated_text"
ErrorText == "Error: ... View logs for details."
NoContentText == "No content generated."

\* The source lists perform_research returns: web sources first, academic
\* ones after them.
ResearchResults == { <<>>, <<EntryP>>, <<EntryW, EntryR>> }

\* s without its element at position k (list.pop).
RemoveAt(s, k) == SubSeq(s, 1, k - 1) \o SubSeq(s, k + 1, Len(s))

\* Lines 354-366: every chapter's editor writes its content back, and a
\* chapter with no result gets the default text.
EditorsWriteBack(results, upTo) ==
    [k \in DOMAIN results \cup 0..(upTo - 1) |->
        IF k \in DOMAIN results THEN results[k] ELSE NoContentText]

\* A whole run of the RESULT step on the results and sources given.
RenderResult(results, meta) ==
    /\ processed_results' = EditorsWriteBack(results, Len(chapters))
    /\ LET agg == Aggregate(meta)
       IN  /\ academic_sources' = agg.academic_sources
           /\ web_sources' = agg.web_sources
           /\ bibliography_md' = RenderBibliography(agg.academic_sources, agg.web_sources)

\* The locals of the RESULT step are gone in a run of another step.
ResultGone ==
    /\ academic_sources' = <<>>
    /\ web_sources' = <<>>
    /\ bibliography_md' = None

Init ==
    /\ pc = "app"
    /\ text = <<>>
    /\ val = None
    /\ view = None
    /\ LinksIdle
    /\ IndexIdle
    /\ AppIdle

\* Lines 151-202: "Analyze Report Structure". The analysis gives the
\* chapters and the step moves on, or it raises and the error is shown.
AnalyzeReport ==
    /\ step = "UPLOAD"
    /\ \/ \E n \in 0..MaxChapters :
            /\ chapters' = [k \in 1..n |-> AnalyzedChapter]
            /\ step' = "REVIEW"
       \/ UNCHANGED <<step, chapters>>
    /\ UNCHANGED <<pc, citeVars, linkVars, indexVars, processed_results, source_metadata,
                   proc_i, resultVars>>

\* A slip that drops the removed chapter's sources with it.
RemoveChapterForgetsSources ==
    /\ step = "REVIEW"
    /\ \E k \in 1..Len(chapters) :
          /\ chapters' = RemoveAt(chapters, k)
          /\ source_metadata' = SelectSeq(source_metadata, LAMBDA e : e.idx # k - 1)
    /\ UNCHANGED <<pc, citeVars, linkVars, indexVars, step, processed_results,
                   proc_i, resultVars>>

\* Lines 272-274: "Remove" of the chapter at list position k.
RemoveChapter ==
    /\ step = "REVIEW"
    /\ \E k \in 1..Len(chapters) : chapters' = RemoveAt(chapters, k)
    /\ UNCHANGED <<pc, citeVars, linkVars, indexVars, step, processed_results, source_metadata,
                   proc_i, resultVars>>

\* Lines 278-292: "Add New Chapter".
AddChapter ==
    /\ step = "REVIEW"
    /\ Len(chapters) < MaxChapters
    /\ chapters' = Append(chapters, ManualChapter)
    /\ UNCHANGED <<pc, citeVars, linkVars, indexVars, step, processed_results, source_metadata,
                   proc_i, resultVars>>

\* A slip that goes from REVIEW to the RESULT step.
StartUpdateSkipsProcessing ==
    /\ step = "REVIEW"
    /\ step' = "RESULT"
    /\ proc_i' = 0
    /\ UNCHANGED <<pc, citeVars, linkVars, indexVars, chapters, processed_results,
                   source_metadata, resultVars>>

\* Lines 295-297: "Start Deep Research & Update".
StartUpdate ==
    /\ step = "REVIEW"
    /\ step' = "PROCESSING"
    /\ proc_i' = 0
    /\ UNCHANGED <<pc, citeVars, linkVars, indexVars, chapters, processed_results,
                   source_metadata, resultVars>>

\* A slip whose except branch stores nothing for the chapter.
ProcessChapterErrorUnrecorded ==
    /\ step = "PROCESSING"
    /\ proc_i < Len(chapters)
    /\ \/ \E sources_meta \in ResearchResults :
            /\ processed_results' = (proc_i :> UpdatedText) @@ processed_results
            /\ source_metadata' = DictSet(source_metadata, proc_i, sources_meta)
       \/ UNCHANGED <<processed_results, source_metadata>>
    /\ proc_i' = proc_i + 1
    /\ UNCHANGED <<pc, citeVars, linkVars, indexVars, step, chapters, resultVars>>

\* Lines 308-342: one turn of the PROCESSING loop, for chapter proc_i.
\* perform_research and update_chapter return, or one of them raises. Both
\* outcomes of the update_chapter call are kept: app.py passes it keywords
\* (target_length, writing_style, language) that the update_chapter of
\* updater.py does not declare, which raises, and a declaring one returns.
ProcessChapter ==
    /\ step = "PROCESSING"
    /\ proc_i < Len(chapters)
    /\ \/ \E sources_meta \in ResearchResults :
            /\ processed_results' = (proc_i :> UpdatedText) @@ processed_results
            /\ source_metadata' = DictSet(source_metadata, proc_i, sources_meta)
       \/ /\ processed_results' = (proc_i :> ErrorText) @@ processed_results
          /\ UNCHANGED source_metadata
    /\ proc_i' = proc_i + 1
    /\ UNCHANGED <<pc, citeVars, linkVars, indexVars, step, chapters, resultVars>>

\* Lines 344-345, and the run of the RESULT step that st.rerun() starts.
FinishProcessing ==
    /\ step = "PROCESSING"
    /\ proc_i = Len(chapters)
    /\ step' = "RESULT"
    /\ proc_i' = 0
    /\ RenderResult(processed_results, source_metadata)
    /\ UNCHANGED <<pc, citeVars, linkVars, indexVars, chapters, source_metadata>>

\* A run of the RESULT step with no button pressed.
RerunResult ==
    /\ step = "RESULT"
    /\ RenderResult(processed_results, source_metadata)
    /\ UNCHANGED <<pc, citeVars, linkVars, indexVars, step, chapters, source_metadata, proc_i>>

\* Lines 384-386 and 110-139: "Regenerate" of chapter idx. The editors up
\* to idx have written back; regenerate_chapter stores its results and the
\* page is run again, or a call raises and the run ends there.
RegenerateChapter ==
    /\ step = "RESULT"
    /\ \E idx \in 0..(Len(chapters) - 1) :
         LET written == EditorsWriteBack(processed_results, idx + 1)
         IN  \/ \E sources_meta \in ResearchResults :
                  /\ source_metadata' = DictSet(source_metadata, idx, sources_meta)
                  /\ RenderResult((idx :> UpdatedText) @@ written,
                                  DictSet(source_metadata, idx, sources_meta))
             \/ /\ processed_results' = written
                /\ UNCHANGED <<source_metadata, resultVars>>
    /\ UNCHANGED <<pc, citeVars, linkVars, indexVars, step, chapters, proc_i>>

\* Lines 461-463: "Return to Review", pressed on a rendered page.
ReturnToReview ==
    /\ step = "RESULT"
    /\ step' = "REVIEW"
    /\ processed_results' = EditorsWriteBack(processed_results, Len(chapters))
    /\ ResultGone
    /\ UNCHANGED <<pc, citeVars, linkVars, indexVars, chapters, source_metadata, proc_i>>

\* Lines 97-100: "Reset Application" deletes every key, and the next run
\* initializes the session again (lines 56-66).
ResetApplication ==
    /\ step' = "UPLOAD"
    /\ chapters' = <<>>
    /\ processed_results' = <<>>
    /\ source_metadata' = <<>>
    /\ proc_i' = 0
    /\ ResultGone
    /\ UNCHANGED <<pc, citeVars, linkVars, indexVars>>

Next ==
    \/ AnalyzeReport
    \/ RemoveChapter
    \/ AddChapter
    \/ StartUpdate
    \/ ProcessChapter
    \/ FinishProcessing
    \/ RerunResult
    \/ RegenerateChapter
    \/ ReturnToReview
    \/ ResetApplication

Spec == Init /\ [][Next]_vars

(* Claims about the workflow. *)

\* source_metadata with its items in ascending chapter index.
RECURSIVE SortedByIndex(_)
SortedByIndex(d) ==
    IF d = <<>> THEN <<>>
    ELSE LET k == CHOOSE j \in DOMAIN d : \A m \in DOMAIN d : d[j].idx <= d[m].idx
         IN  <<d[k]>> \o SortedByIndex(RemoveAt(d, k))

SessionEmpty ==
    /\ chapters = <<>>
    /\ processed_results = <<>>
    /\ source_metadata = <<>>

\* Reset Application was pressed: the step is UPLOAD and nothing is left.
IsReset ==
    /\ step' = "UPLOAD"
    /\ chapters' = <<>>
    /\ processed_results' = <<>>
    /\ source_metadata' = <<>>

\* C18: PROCESSING takes the chapters one by one in index order and leaves
\* for RESULT only after the last one (Reset Application apart). A turn
\* for chapter i stores a text for i; when it stores the error text,
\* source_metadata is as before. In RESULT every index below the number of
\* chapters has a text.
C18_ProcessingHandlesEveryChapter ==
    /\ [](step = "PROCESSING" =>
            /\ proc_i <= Len(chapters)
            /\ \A i \in 0..(proc_i - 1) : i \in DOMAIN processed_results)
    /\ [](step = "RESULT" =>
            \A i \in 0..(Len(chapters) - 1) : i \in DOMAIN processed_results)
    /\ [][(step = "PROCESSING" /\ step' = "PROCESSING") =>
            /\ proc_i < Len(chapters)
            /\ proc_i' = proc_i + 1
            /\ chapters' = chapters
            /\ proc_i \in DOMAIN processed_results'
            /\ \A i \in DOMAIN processed_results \ {proc_i} :
                   processed_results'[i] = processed_results[i]
            /\ processed_results'[proc_i] = ErrorText =>
                   source_metadata' = source_metadata
            /\ processed_results'[proc_i] # ErrorText =>
                   /\ processed_results'[proc_i] = UpdatedText
                   /\ proc_i \in DictKeys(source_metadata')]_vars
    /\ [][(step = "PROCESSING" /\ step' # "PROCESSING") =>
            \/ step' = "RESULT" /\ proc_i = Len(chapters) /\ chapters' = chapters
            \/ IsReset]_vars

\* Chapter 0 failed, chapter 1 was still processed, and the step is RESULT.
C18_Witness ==
    /\ step = "RESULT"
    /\ Len(chapters) = 2
    /\ processed_results[0] = ErrorText
    /\ processed_results[1] = UpdatedText
    /\ DictKeys(source_metadata) = {1}

StaleIndices ==
    {idx \in DictKeys(source_metadata) :
        \/ idx >= Len(chapters)
        \/ idx \in DOMAIN processed_results /\ processed_results[idx] = ErrorText}

Steps == {"UPLOAD", "REVIEW", "PROCESSING", "RESULT"}

\* C20: the step is one of the four, starts at UPLOAD, and changes only
\* along UPLOAD-REVIEW, REVIEW-PROCESSING, PROCESSING-RESULT and
\* RESULT-REVIEW or by Reset Application, which leaves the step at UPLOAD
\* with empty chapters, processed_results and source_metadata; at UPLOAD
\* the session is empty, so an analysis that gave no chapters left the step
\* where it was.
C20_WorkflowSteps ==
    /\ step = "UPLOAD"
    /\ [](step \in Steps)
    /\ [](step = "UPLOAD" => SessionEmpty)
    /\ [][step' # step =>
            \/ step = "UPLOAD" /\ step' = "REVIEW"
            \/ step = "REVIEW" /\ step' = "PROCESSING"
            \/ step = "PROCESSING" /\ step' = "RESULT"
            \/ step = "RESULT" /\ step' = "REVIEW"
            \/ IsReset]_vars
    /\ [][step' = "RESULT" => step \in {"PROCESSING", "RESULT"}]_vars
    /\ [][step' = "UPLOAD" => (step = "UPLOAD" /\ chapters' = chapters) \/ IsReset]_vars

\* Back in REVIEW after a RESULT page: the whole round was made.
C20_Witness ==
    /\ step = "REVIEW"
    /\ Len(chapters) = 2
    /\ DOMAIN processed_results = {0, 1}

====
